---- MODULE Spec2Model ----
(***************************************************************************)
(* ts-entities: decorator-driven structural equality (isEqual) and deep    *)
(* copy (copy) for classes.  The repository holds two Entity decorators:   *)
(*   "decorators.ts"  src/src/decorators/decorators.ts  (exports Compare)  *)
(*   "part_001"       src/unnamed/part_001              (exports           *)
(*                    Comparable; per-element handling of arrays)          *)
(* Both are modelled; Entity(t, impl) installs the methods of one of them. *)
(* Metadata is kept by reflect-metadata: a lookup walks the prototype      *)
(* chain of its target, a definition writes the target's own entry.        *)
(***************************************************************************)
EXTENDS Integers, Sequences, FiniteSets, TLC

VARIABLES
    comparable,   \* {<<type, field>>}: comparableMetadataKey set on type.prototype
    copyable,     \* {<<type, field>>}: copyMetadataKey set on type.prototype
    entity,       \* {type}: entityMetadataKey set on type.prototype
    installed,    \* [type -> impl]: whose isEqual/copy the prototype owns
    copyArgsRef,  \* [type -> array id]: the constructor's own copyArgs entry
    copyArgsArr,  \* [array id -> Seq(CopyParam)]: the CopyParam[] objects
    pc,           \* "idle" | "returned": position of the calling program
    last,         \* the last call of isEqual/copy: operands and outcome
    copyHistory   \* [type -> what the copy() calls on it have done so far]

vars == <<comparable, copyable, entity, installed, copyArgsRef, copyArgsArr,
          pc, last, copyHistory>>

(***************************************************************************)
(* Bounds                                                                  *)
(***************************************************************************)
MaxCopyParams == 2   \* longest CopyParam[] built by @Copy calls

(***************************************************************************)
(* Classes of the consuming program, after src/src/example/entity.ts.      *)
(* Optional holds one field, value.  Person is cut to two fields, value    *)
(* and foo, which its constructor sets from its two parameters; a field    *)
(* may hold a primitive, an Optional or an array.  Student is a class that *)
(* extends Person and declares nothing of its own.                         *)
(***************************************************************************)
Types == {"Person", "Student", "Optional"}

Parent(t) == IF t = "Student" THEN "Person" ELSE "none"

\* The prototype chain of t (t first), as far as classes go.
Chain(t) == IF Parent(t) = "none" THEN <<t>> ELSE <<t, Parent(t)>>

ChainSet(t) == {Chain(t)[i] : i \in 1..Len(Chain(t))}

Fields == {"value", "foo"}

\* Own keys are enumerated in the order the constructor assigned them.
FieldOrder == <<"value", "foo">>

Impls == {"decorators.ts", "part_001"}

(***************************************************************************)
(* Values of the host language                                             *)
(***************************************************************************)
Prim(v) == [k |-> "prim", v |-> v]
Undefined == Prim("undefined")
Null == Prim("null")
NaN == Prim("NaN")

Arr(id, elems) == [k |-> "arr", id |-> id, elems |-> elems]

Obj(id, type, vals) == [k |-> "obj", id |-> id, type |-> type, vals |-> vals]

\* Identity of the object or array a copy allocates in place of the one with
\* identity id: new, so different from every identity that exists.
NewId(id) == id + 100

\* Object.keys(o): own enumerable keys, in creation order.
Keys(o) == SelectSeq(FieldOrder, LAMBDA f : f \in DOMAIN o.vals)

\* `key in o` for a field name: own keys (the prototypes hold only methods).
HasKey(o, f) == o.k = "obj" /\ f \in DOMAIN o.vals

\* o[f]: undefined when the key is absent.
Get(o, f) == IF f \in DOMAIN o.vals THEN o.vals[f] ELSE Undefined

\* A comparison that takes no two references for the same: only primitives
\* are ever equal.
StrictEqPrimitivesOnly(x, y) ==
    x.k = "prim" /\ y.k = "prim" /\ x.v = y.v /\ x.v # "NaN"

\* x === y
StrictEq(x, y) ==
    CASE x.k = "prim" -> y.k = "prim" /\ x.v = y.v /\ x.v # "NaN"
      [] x.k = "arr"  -> y.k = "arr" /\ x.id = y.id
      [] x.k = "obj"  -> y.k = "obj" /\ x.id = y.id

\* x instanceof t
InstanceOf(x, t) == x.k = "obj" /\ t \in ChainSet(x.type)

\* Truthiness of a value (the guard `target &&` of isEntity).
Truthy(x) == ~(x.k = "prim" /\ x.v \in {"undefined", "null", "NaN"})

(***************************************************************************)
(* Constructors (src/src/example/entity.ts)                                *)
(***************************************************************************)
CtorParams(t) == IF t = "Optional" THEN <<"value">> ELSE <<"value", "foo">>

Arg(args, i) == IF i <= Len(args) THEN args[i] ELSE Undefined

\* new t(...args): every parameter is assigned to its field; Optional turns
\* an undefined argument into null.
New(t, id, args) ==
    LET ps == CtorParams(t)
        Store(i) == IF t = "Optional" /\ Arg(args, i) = Undefined
                    THEN Null ELSE Arg(args, i)
    IN  Obj(id, t, [f \in {ps[i] : i \in 1..Len(ps)} |->
                      Store(CHOOSE i \in 1..Len(ps) : ps[i] = f)])

(***************************************************************************)
(* Metadata lookups (src/src/decorators/utils.ts)                          *)
(***************************************************************************)
\* Reflect.getMetadata(entityMetadataKey, x.constructor.prototype), for a
\* truthy x whose constructor has an object prototype.
isEntity(x) ==
    /\ Truthy(x)
    /\ x.k = "obj"
    /\ \E t \in ChainSet(x.type) : t \in entity

\* A filter that lets every own key through.
isComparableAlways(t, f) == TRUE

isComparable(t, f) == \E u \in ChainSet(t) : <<u, f>> \in comparable

isCopyable(t, f) == \E u \in ChainSet(t) : <<u, f>> \in copyable

\* The array id Reflect.getMetadata(copyArgsMetadataKey, t) finds: t's own
\* entry, else the nearest ancestor's, else "none".
CopyArgsId(t) ==
    LET c == Chain(t)
        own == {i \in 1..Len(c) : copyArgsRef[c[i]] # "none"}
    IN  IF own = {} THEN "none"
        ELSE copyArgsRef[c[CHOOSE i \in own : \A j \in own : i <= j]]

getCopyArgs(t) ==
    IF CopyArgsId(t) = "none" THEN <<>> ELSE copyArgsArr[CopyArgsId(t)]

(***************************************************************************)
(* Method dispatch                                                         *)
(***************************************************************************)
\* The class whose prototype supplies x.isEqual / x.copy: the nearest class
\* of x's chain on which Entity installed them ("none": no such method).
Owner(x) ==
    LET c == Chain(x.type)
        has == {i \in 1..Len(c) : installed[c[i]] # "none"}
    IN  IF has = {} THEN "none"
        ELSE c[CHOOSE i \in has : \A j \in has : i <= j]

Bool(b) == IF b THEN "true" ELSE "false"

\* y.length, where x.length is a number: "undefined" for a value without one.
Length(y) == IF y.k = "arr" THEN Len(y.elems) ELSE -1

(***************************************************************************)
(* isEqual: outcome "true", "false", or "TypeError" when the call throws   *)
(***************************************************************************)
RECURSIVE isEqual(_, _)

\* areFieldsEqual of part_001; the same test is inline in decorators.ts.
areFieldsEqual(thisValue, otherValue) ==
    IF isEntity(thisValue)
    THEN IF Owner(thisValue) = "none" THEN "TypeError"
         ELSE isEqual(thisValue, otherValue)
    ELSE Bool(StrictEq(thisValue, otherValue))

RECURSIVE ElementsEqual(_, _, _)
\* The loop over i of part_001: other[property][i] is undefined past the end.
ElementsEqual(xs, ys, i) ==
    IF i > Len(xs) THEN "true"
    ELSE LET r == areFieldsEqual(xs[i], ys[i])
         IN  IF r = "true" THEN ElementsEqual(xs, ys, i + 1) ELSE r

\* One iteration of the loop over the comparable properties: "true" stands
\* for falling through to the next property.
PropertyEqual(impl, this, other, property) ==
    LET thisValue == Get(this, property)
        otherValue == Get(other, property)
    IN  IF impl = "part_001"
        THEN IF ~HasKey(other, property) THEN "false"
             ELSE IF thisValue.k = "arr"
             THEN IF otherValue \in {Null, Undefined} THEN "TypeError"
                  ELSE IF Len(thisValue.elems) # Length(otherValue) THEN "false"
                  ELSE ElementsEqual(thisValue.elems, otherValue.elems, 1)
             ELSE areFieldsEqual(thisValue, otherValue)
        ELSE IF ~HasKey(other, property) THEN "true"
             ELSE areFieldsEqual(thisValue, otherValue)

RECURSIVE PropertiesEqual(_, _, _, _)
PropertiesEqual(impl, this, other, properties) ==
    IF properties = <<>> THEN "true"
    ELSE LET r == PropertyEqual(impl, this, other, Head(properties))
         IN  IF r = "true"
             THEN PropertiesEqual(impl, this, other, Tail(properties))
             ELSE r

\* this.isEqual(other), for a this that has the method.
isEqual(this, other) ==
    LET constructor == Owner(this)
        properties == SelectSeq(Keys(this),
                                LAMBDA key : isComparable(constructor, key))
    IN  IF ~InstanceOf(other, constructor) THEN "false"
        ELSE PropertiesEqual(installed[constructor], this, other, properties)

(***************************************************************************)
(* copy                                                                    *)
(***************************************************************************)
CopyParam(name, index) == [name |-> name, index |-> index]

\* copyParamSort(a, b) > 0: a is to be placed after b.
copyParamSort(a, b) == IF a.index > b.index THEN 1 ELSE -1

\* The orders Array.prototype.sort(copyParamSort) may leave the array in.
\* Entries of different index end in index order; copyParamSort answers -1
\* both ways for entries of equal index, and the order of such entries is
\* then the engine's choice.
Sorted(arr) ==
    {q \in {[i \in 1..Len(arr) |-> arr[p[i]]] : p \in Permutations(1..Len(arr))} :
        \A i, j \in 1..Len(q) :
            (i < j /\ q[i].index # q[j].index) => copyParamSort(q[j], q[i]) > 0}

Error(kind, name) == [k |-> "error", kind |-> kind, name |-> name]

IsError(x) == x.k = "error"

Ok == [k |-> "ok"]

\* The values a map has produced so far.
List(elems) == [k |-> "list", elems |-> elems]

Range(s) == {s[i] : i \in 1..Len(s)}

\* A validator that checks the copy parameters only.
verifyCopyableParamsOnly(copyableProperties, annotatedParams) ==
    LET propsSet == Range(copyableProperties)
        badParams == {i \in 1..Len(annotatedParams) :
                        annotatedParams[i].name \notin propsSet}
    IN  IF badParams # {}
        THEN Error("argument",
                   annotatedParams[CHOOSE i \in badParams :
                                       \A j \in badParams : i <= j].name)
        ELSE Ok

\* verifyCopyable: Ok, or the TypeError it throws ("property": `Property
\* <name> has no matching constructor argument annotation!`; "argument":
\* `Constructor argument <name> has no matching property annotation!`).
verifyCopyable(copyableProperties, annotatedParams) ==
    LET paramsSet == {annotatedParams[i].name : i \in 1..Len(annotatedParams)}
        propsSet == Range(copyableProperties)
        badProps == {i \in 1..Len(copyableProperties) :
                        copyableProperties[i] \notin paramsSet}
        badParams == {i \in 1..Len(annotatedParams) :
                        annotatedParams[i].name \notin propsSet}
    IN  IF badProps # {}
        THEN Error("property",
                   copyableProperties[CHOOSE i \in badProps :
                                          \A j \in badProps : i <= j])
        ELSE IF badParams # {}
        THEN Error("argument",
                   annotatedParams[CHOOSE i \in badParams :
                                       \A j \in badParams : i <= j].name)
        ELSE Ok

\* A call of copy yields [out, entered, values]: the instance returned or the
\* error thrown, the classes whose copy ran (each sorts its CopyParam[]), and
\* the arguments it gave the constructor.  srt[id] is the order the sort
\* leaves array id in.
RECURSIVE copy(_, _)

\* copyField of part_001; the same test is inline in decorators.ts.
copyField(original, srt) ==
    IF ~isEntity(original) THEN [out |-> original, entered |-> {}, values |-> <<>>]
    ELSE copy(original, srt)

RECURSIVE MapCopyField(_, _, _, _, _)
\* thisValue.map(copyField): stops at the first element whose copy throws.
MapCopyField(elems, i, done, entered, srt) ==
    IF i > Len(elems) THEN [out |-> List(done), entered |-> entered]
    ELSE LET r == copyField(elems[i], srt)
         IN  IF IsError(r.out)
             THEN [out |-> r.out, entered |-> entered \cup r.entered]
             ELSE MapCopyField(elems, i + 1, Append(done, r.out),
                               entered \cup r.entered, srt)

\* The value passed for one annotated argument.
CopyValue(impl, thisValue, srt) ==
    IF impl = "part_001" /\ thisValue.k = "arr"
    THEN LET r == MapCopyField(thisValue.elems, 1, <<>>, {}, srt)
         IN  IF IsError(r.out) THEN r
             ELSE [out |-> Arr(NewId(thisValue.id), r.out.elems),
                   entered |-> r.entered]
    ELSE copyField(thisValue, srt)

RECURSIVE MapCopyValue(_, _, _, _, _, _, _)
\* annotatedArguments.map(...): stops at the first argument whose copy throws.
MapCopyValue(impl, this, args, i, done, entered, srt) ==
    IF i > Len(args) THEN [out |-> List(done), entered |-> entered]
    ELSE LET r == CopyValue(impl, Get(this, args[i].name), srt)
         IN  IF IsError(r.out)
             THEN [out |-> r.out, entered |-> entered \cup r.entered]
             ELSE MapCopyValue(impl, this, args, i + 1, Append(done, r.out),
                               entered \cup r.entered, srt)

\* A copy that validates a class once: after a copy() of the class has
\* returned, later calls skip verifyCopyable.
copyValidatedOnce(this, srt) ==
    LET constructor == Owner(this)
        copyableProperties == SelectSeq(Keys(this),
                                        LAMBDA key : isCopyable(constructor, key))
        annotatedArguments == IF CopyArgsId(constructor) = "none" THEN <<>>
                              ELSE srt[CopyArgsId(constructor)]
        verdict == IF copyHistory[constructor] # "none" THEN Ok
                   ELSE verifyCopyable(copyableProperties, annotatedArguments)
    IN  IF verdict # Ok
        THEN [out |-> verdict, entered |-> {constructor}, values |-> <<>>]
        ELSE LET r == MapCopyValue(installed[constructor], this,
                                   annotatedArguments, 1, <<>>, {constructor}, srt)
             IN  IF IsError(r.out)
                 THEN [out |-> r.out, entered |-> r.entered, values |-> <<>>]
                 ELSE [out |-> New(constructor, NewId(this.id), r.out.elems),
                       entered |-> r.entered, values |-> r.out.elems]

\* this.copy(), for a this that has the method.
copy(this, srt) ==
    LET constructor == Owner(this)
        copyableProperties == SelectSeq(Keys(this),
                                        LAMBDA key : isCopyable(constructor, key))
        annotatedArguments == IF CopyArgsId(constructor) = "none" THEN <<>>
                              ELSE srt[CopyArgsId(constructor)]
        verdict == verifyCopyable(copyableProperties, annotatedArguments)
    IN  IF verdict # Ok
        THEN [out |-> verdict, entered |-> {constructor}, values |-> <<>>]
        ELSE LET r == MapCopyValue(installed[constructor], this,
                                   annotatedArguments, 1, <<>>, {constructor}, srt)
             IN  IF IsError(r.out)
                 THEN [out |-> r.out, entered |-> r.entered, values |-> <<>>]
                 ELSE [out |-> New(constructor, NewId(this.id), r.out.elems),
                       entered |-> r.entered, values |-> r.out.elems]

(***************************************************************************)
(* Operands of the calls                                                   *)
(***************************************************************************)
P25 == Prim("25")
P30 == Prim("30")

\* Optional instances held in fields and arrays.
O1 == Obj(1, "Optional", [value |-> P25])
O2 == Obj(2, "Optional", [value |-> P25])
O3 == Obj(3, "Optional", [value |-> P30])

A1 == Arr(11, <<O1>>)
A2 == Arr(12, <<O2>>)
A3 == Arr(13, <<O3>>)
A4 == Arr(14, <<O1, O3>>)
A5 == Arr(15, <<P25, NaN>>)

\* The objects of class t with identity id: each field absent or present.
Instances(t, id, valueVals, fooVals) ==
    {Obj(id, t, [value |-> v, foo |-> w]) : v \in valueVals, w \in fooVals}
    \cup {Obj(id, t, [value |-> v]) : v \in valueVals}
    \cup {Obj(id, t, [foo |-> w]) : w \in fooVals}
    \cup {Obj(id, t, [f \in {} |-> Null])}

ThisPool ==
    Instances("Person", 21, {P25, NaN, O1, A1, A4, A5}, {P25})
    \cup Instances("Optional", 21, {P25}, {P25})
    \cup Instances("Student", 21, {P25}, {P25})

OtherPool ==
    Instances("Person", 22, {P25, Null, O1, O2, O3, A1, A2, A3, A4}, {P25, P30})
    \cup Instances("Optional", 22, {P25}, {P25})
    \cup Instances("Student", 22, {P25, O1}, {P25})
    \cup {P25, Null, Undefined, A1}

CopyPool ==
    {Obj(21, "Person", [value |-> v, foo |-> P25]) : v \in {P25, O1, A1, A4}}
    \cup {Obj(21, "Person", [value |-> O1]), Obj(21, "Person", [foo |-> P25]),
          Obj(21, "Student", [value |-> P25, foo |-> P25])}

NoCall == [op |-> "none"]

(***************************************************************************)
(* State after the modules are loaded, before any decorator has run        *)
(***************************************************************************)
Init ==
    /\ comparable = {}
    /\ copyable = {}
    /\ entity = {}
    /\ installed = [t \in Types |-> "none"]
    /\ copyArgsRef = [t \in Types |-> "none"]
    /\ copyArgsArr = [t \in Types |-> <<>>]
    /\ pc = "idle"
    /\ last = NoCall
    /\ copyHistory = [t \in Types |-> "none"]

(***************************************************************************)
(* Decorators                                                              *)
(***************************************************************************)
\* Comparable()(t.prototype, f)   (Compare() in decorators.ts)
Comparable(t, f) ==
    /\ pc = "idle"
    /\ comparable' = comparable \cup {<<t, f>>}
    /\ UNCHANGED <<copyable, entity, installed, copyArgsRef, copyArgsArr,
                   pc, last, copyHistory>>

\* Copyable()(t.prototype, f)
Copyable(t, f) ==
    /\ pc = "idle"
    /\ copyable' = copyable \cup {<<t, f>>}
    /\ UNCHANGED <<comparable, entity, installed, copyArgsRef, copyArgsArr,
                   pc, last, copyHistory>>

\* EntityField()(t.prototype, f)
EntityField(t, f) ==
    /\ pc = "idle"
    /\ comparable' = comparable \cup {<<t, f>>}
    /\ copyable' = copyable \cup {<<t, f>>}
    /\ UNCHANGED <<entity, installed, copyArgsRef, copyArgsArr, pc, last, copyHistory>>

\* Copy(name)(t, undefined, index): the array found for t (its own, an
\* ancestor's, or a new one) receives the entry and becomes t's own entry.
\* A new array is named after the class that creates it.
Copy(t, name, index) ==
    LET id == IF CopyArgsId(t) = "none" THEN t ELSE CopyArgsId(t)
    IN  /\ pc = "idle"
        /\ Len(getCopyArgs(t)) < MaxCopyParams
        /\ copyArgsArr' = [copyArgsArr EXCEPT
                              ![id] = Append(getCopyArgs(t), CopyParam(name, index))]
        /\ copyArgsRef' = [copyArgsRef EXCEPT ![t] = id]
        /\ UNCHANGED <<comparable, copyable, entity, installed, pc, last, copyHistory>>

\* Entity(t) of module impl.
Entity(t, impl) ==
    /\ pc = "idle"
    /\ entity' = entity \cup {t}
    /\ installed' = [installed EXCEPT ![t] = impl]
    /\ UNCHANGED <<comparable, copyable, copyArgsRef, copyArgsArr, pc, last, copyHistory>>

(***************************************************************************)
(* Calls of the synthesized methods                                        *)
(***************************************************************************)
\* this.isEqual(other)
IsEqualCall(this, other) ==
    /\ pc = "idle"
    /\ Owner(this) # "none"
    /\ last' = [op |-> "isEqual", this |-> this, other |-> other,
                out |-> isEqual(this, other)]
    /\ pc' = "returned"
    /\ UNCHANGED <<comparable, copyable, entity, installed, copyArgsRef,
                   copyArgsArr, copyHistory>>

\* The orders one call's sorts may leave the CopyParam[] objects in.
SortChoices ==
    {[id \in Types |-> CASE id = "Person" -> p [] id = "Student" -> s
                         [] id = "Optional" -> o] :
        p \in Sorted(copyArgsArr["Person"]),
        s \in Sorted(copyArgsArr["Student"]),
        o \in Sorted(copyArgsArr["Optional"])}

\* this holds every field its constructor sets.
FullyConstructed(this) == DOMAIN this.vals = Range(CtorParams(this.type))

\* What the calls of copy() on the fully constructed instances of a class
\* have done, once one more has thrown (failed) or returned: "none", "ok"
\* (some call has returned), "broken" (a call has thrown after one that
\* returned), "restored" (a call has returned after that).
After(history, failed) ==
    CASE history = "none"     -> IF failed THEN "none" ELSE "ok"
      [] history = "ok"       -> IF failed THEN "broken" ELSE "ok"
      [] history = "broken"   -> IF failed THEN "broken" ELSE "restored"
      [] history = "restored" -> "restored"

\* this.copy(), the sorts leaving the arrays as srt says.
CopyWith(this, srt) ==
    LET r == copy(this, srt)
    IN  /\ copyArgsArr' = [id \in Types |->
                             IF \E t \in r.entered : CopyArgsId(t) = id
                             THEN srt[id] ELSE copyArgsArr[id]]
        /\ last' = [op |-> "copy", this |-> this, out |-> r.out,
                    args |-> IF CopyArgsId(Owner(this)) = "none" THEN <<>>
                             ELSE srt[CopyArgsId(Owner(this))],
                    values |-> r.values,
                    before |-> copyHistory[Owner(this)]]
        /\ copyHistory' = IF FullyConstructed(this)
                          THEN [copyHistory EXCEPT
                                  ![Owner(this)] = After(@, IsError(r.out))]
                          ELSE copyHistory

\* this.copy()
CopyCall(this) ==
    /\ pc = "idle"
    /\ Owner(this) # "none"
    /\ \E srt \in SortChoices : CopyWith(this, srt)
    /\ pc' = "returned"
    /\ UNCHANGED <<comparable, copyable, entity, installed, copyArgsRef>>

\* original.isEqual(original.copy()), on the copy just returned
\* (src/unnamed/part_000: noemi.isEqual(noemi2.copy())).
CompareWithCopy ==
    /\ pc = "returned"
    /\ last.op = "copy"
    /\ ~IsError(last.out)
    /\ last' = [op |-> "isEqualCopy", this |-> last.this, other |-> last.out,
                out |-> isEqual(last.this, last.out)]
    /\ UNCHANGED <<comparable, copyable, entity, installed, copyArgsRef,
                   copyArgsArr, pc, copyHistory>>

\* The caller has consumed the result.
Return ==
    /\ pc = "returned"
    /\ pc' = "idle"
    /\ last' = NoCall
    /\ UNCHANGED <<comparable, copyable, entity, installed, copyArgsRef,
                   copyArgsArr, copyHistory>>

(***************************************************************************)
(* Specifications                                                          *)
(***************************************************************************)
\* The fields the classes declare and decorate.
Declared == {<<"Person", "value">>, <<"Person", "foo">>, <<"Optional", "value">>}

\* Constructor positions of t.
Positions(t) == 0..(Len(CtorParams(t)) - 1)

\* The @Copy decorations the parameters of t's constructor can carry: the
\* parameter at position index is given the name of the field it sets.
CopyDecorations(t) ==
    {<<CtorParams(t)[index + 1], index>> : index \in Positions(t)}

\* Optional is declared as in src/src/example/entity.ts, with decorator
\* syntax: the decorator of its field runs first, then the decorator of its
\* constructor's parameter, then Entity.
OptionalFieldDone == <<"Optional", "value">> \in copyable
OptionalParamDone == copyArgsRef["Optional"] # "none"

\* A program that decorates Person by calls in any order, declares Optional,
\* copies and compares the copies.
Next ==
    \/ \E f \in Fields : Copyable("Person", f)
    \/ \E f \in Fields : EntityField("Person", f)
    \/ \E c \in CopyDecorations("Person") : Copy("Person", c[1], c[2])
    \/ \E impl \in Impls : Entity("Person", impl)
    \/ ~OptionalFieldDone /\ EntityField("Optional", "value")
    \/ OptionalFieldDone /\ ~OptionalParamDone /\ Copy("Optional", "value", 0)
    \/ OptionalParamDone /\ \E impl \in Impls : Entity("Optional", impl)
    \/ \E this \in CopyPool : CopyCall(this)
    \/ CompareWithCopy
    \/ Return

Spec == Init /\ [][Next]_vars

\* A program that decorates and compares.
NextEq ==
    \/ \E d \in Declared : Comparable(d[1], d[2])
    \/ \E t \in {"Person", "Optional"}, impl \in Impls : Entity(t, impl)
    \/ \E this \in ThisPool : \E other \in OtherPool \cup {this} :
          IsEqualCall(this, other)
    \/ Return

SpecEq == Init /\ [][NextEq]_vars

\* The instances copied by the program with a subclass.
SubPool ==
    {Obj(21, "Person", [value |-> P25, foo |-> P25]),
     Obj(21, "Person", [value |-> P25]),
     Obj(21, "Student", [value |-> P25, foo |-> P25])}

\* A program with a subclass: Person and Student (which extends Person) have
\* their constructors' parameters decorated, and instances are copied.
NextSub ==
    \/ \E f \in Fields : EntityField("Person", f)
    \/ \E t \in {"Person", "Student"} :
          \E c \in CopyDecorations(t) : Copy(t, c[1], c[2])
    \/ \E t \in {"Person", "Student"}, impl \in Impls : Entity(t, impl)
    \/ \E this \in SubPool : CopyCall(this)
    \/ Return

SpecSub == Init /\ [][NextSub]_vars

(***************************************************************************)
(* Properties of isEqual (checked under SpecEq)                            *)
(***************************************************************************)
IsEqualReturned == last.op = "isEqual"

\* f is marked comparable for class t or for a class t extends.
MarkedComparable(t, f) == \E u \in ChainSet(t) : <<u, f>> \in comparable

\* The own fields of x that are marked comparable for class t.
ComparableKeys(t, x) == {f \in DOMAIN x.vals : MarkedComparable(t, f)}

RECURSIVE HoldsNaN(_)
\* NaN is x, an element of the sequence x, or held by a field of the record x.
HoldsNaN(x) ==
    CASE x.k = "prim" -> x.v = "NaN"
      [] x.k = "arr"  -> \E i \in 1..Len(x.elems) : HoldsNaN(x.elems[i])
      [] x.k = "obj"  -> \E f \in DOMAIN x.vals : HoldsNaN(x.vals[f])

\* C2: a.isEqual(x) is false whenever x is not an instance of a's exact
\* type: an instance of a subtype, of an unrelated type, or no record.
C2_OtherTypeIsUnequal ==
    (IsEqualReturned /\ ~(last.other.k = "obj" /\ last.other.type = last.this.type))
        => last.out = "false"

\* C3 as stated: a.isEqual(a) is true for every synthesized instance a.
C3_Reflexive ==
    (IsEqualReturned /\ last.other = last.this) => last.out = "true"

\* C3 as amended: a.isEqual(a) is true for every synthesized instance a none
\* of whose comparable fields holds NaN (as its value, as an element of its
\* sequence or in a field of its record).
C3_ReflexiveWithoutNaN ==
    (/\ IsEqualReturned
     /\ last.other = last.this
     /\ \A f \in ComparableKeys(Owner(last.this), last.this) :
            ~HoldsNaN(last.this.vals[f]))
        => last.out = "true"

\* An instance whose comparable field holds a sequence of two records has
\* been compared with itself under per-element comparison.
C3_Witness ==
    /\ IsEqualReturned
    /\ last.other = last.this
    /\ HasKey(last.this, "value")
    /\ last.this.vals["value"] = A4
    /\ MarkedComparable(Owner(last.this), "value")
    /\ installed[Owner(last.this)] = "part_001"
    /\ isEntity(O1)
    /\ last.out = "true"

\* x and y are of one class and differ at most in fields that are not
\* marked comparable for class t: their values, or whether they are there.
SameComparableFields(t, x, y) ==
    /\ x.k = "obj" /\ y.k = "obj"
    /\ x.type = y.type
    /\ ComparableKeys(t, x) = ComparableKeys(t, y)
    /\ \A f \in ComparableKeys(t, x) : x.vals[f] = y.vals[f]

C6_NeverThrows ==
    IsEqualReturned => last.out \in {"true", "false"}

\* Both instances are of one class, and the only comparable field of the
\* first holds a sequence where the second holds a sequence too.
SequenceCase ==
    /\ IsEqualReturned
    /\ last.other.k = "obj"
    /\ last.other.type = last.this.type
    /\ ComparableKeys(Owner(last.this), last.this) = {"value"}
    /\ last.this.vals["value"].k = "arr"
    /\ HasKey(last.other, "value")
    /\ last.other.vals["value"].k = "arr"

\* C7: sequences of different lengths are unequal, and sequences of one
\* length are equal iff each pair of corresponding elements is equal by the
\* per-value rule (a record's own isEqual, else ===).
C7_SequencesPerElement ==
    SequenceCase =>
        LET xs == last.this.vals["value"].elems
            ys == last.other.vals["value"].elems
        IN  last.out = Bool(/\ Len(xs) = Len(ys)
                            /\ \A i \in 1..Len(xs) :
                                  areFieldsEqual(xs[i], ys[i]) = "true")

\* C12: presence matters: a.isEqual(b), for b of a's type, is false when an
\* own comparable field of a is absent on b.
C12_AbsentFieldIsUnequal ==
    (/\ IsEqualReturned
     /\ last.other.k = "obj"
     /\ last.other.type = last.this.type
     /\ \E f \in ComparableKeys(Owner(last.this), last.this) :
            ~HasKey(last.other, f))
        => last.out = "false"

\* C13: isEqual is symmetric on instances of one synthesized type:
\* a.isEqual(b) has the outcome of b.isEqual(a).
C13_Symmetric ==
    (/\ IsEqualReturned
     /\ last.other.k = "obj"
     /\ last.other.type = last.this.type)
        => isEqual(last.other, last.this) = last.out

\* C13 where neither call throws and both instances hold the same own
\* comparable fields.
C13_SymmetricOnSameKeys ==
    (/\ IsEqualReturned
     /\ last.other.k = "obj"
     /\ last.other.type = last.this.type
     /\ ComparableKeys(Owner(last.this), last.this)
            = ComparableKeys(Owner(last.this), last.other)
     /\ last.out # "TypeError"
     /\ isEqual(last.other, last.this) # "TypeError")
        => isEqual(last.other, last.this) = last.out

(***************************************************************************)
(* Properties of copy (checked under Spec)                                 *)
(***************************************************************************)
CopyReturned == last.op = "copy"

\* f is marked copyable for class t or for a class t extends.
MarkedCopyable(t, f) == \E u \in ChainSet(t) : <<u, f>> \in copyable

\* The own copyable fields of the copied instance, in key order.
CopyableKeys ==
    SelectSeq(Keys(last.this),
              LAMBDA f : MarkedCopyable(Owner(last.this), f))

\* The own copyable fields no copy parameter names, in key order.
Uncovered ==
    SelectSeq(CopyableKeys,
              LAMBDA f : \A i \in 1..Len(last.args) : last.args[i].name # f)

\* The copy parameters, in position order, that name no own copyable field.
Unmatched ==
    SelectSeq(last.args, LAMBDA a : a.name \notin Range(CopyableKeys))

Consistent == Uncovered = <<>> /\ Unmatched = <<>>

\* C1: original.isEqual(original.copy()) is true whenever copy() has passed
\* the Consistency Validator.
C1_CopyPreservesEquality ==
    last.op = "isEqualCopy" => last.out = "true"

\* C5: copy() raises the mismatch error naming the first own copyable field
\* without a copy parameter; if there is none, the one naming a copy
\* parameter that names no own copyable field; if there is none either, no
\* error.
C5_ValidatorNamesOffender ==
    CopyReturned =>
        IF Uncovered # <<>>
        THEN last.out = Error("property", Head(Uncovered))
        ELSE IF Unmatched # <<>>
        THEN last.out = Error("argument", Head(Unmatched).name)
        ELSE ~IsError(last.out)

\* Both kinds of violation exist, and copy() has named the uncovered field.
C5_Witness ==
    /\ CopyReturned
    /\ Uncovered # <<>>
    /\ Unmatched # <<>>
    /\ last.out = Error("property", Head(Uncovered))

\* The value w passed for the value v by the per-value rule.
PerValue(v, w) ==
    IF isEntity(v) THEN w = copy(v, copyArgsArr).out ELSE w = v

\* C8: copy() passes the constructor, for a sequence, a new sequence of the
\* same length whose elements follow the per-value rule (a record's own
\* copy(), else the very same value), and for another value what the
\* per-value rule gives.
C8_SequencesCopiedPerElement ==
    (CopyReturned /\ ~IsError(last.out)) =>
        /\ Len(last.values) = Len(last.args)
        /\ \A i \in 1..Len(last.args) :
              LET v == Get(last.this, last.args[i].name)
                  w == last.values[i]
              IN  IF v.k = "arr"
                  THEN /\ w.k = "arr"
                       /\ w.id # v.id
                       /\ Len(w.elems) = Len(v.elems)
                       /\ \A j \in 1..Len(v.elems) : PerValue(v.elems[j], w.elems[j])
                  ELSE PerValue(v, w)

\* C9: no decorator call is ever refused, whatever has been registered, and
\* every copy() runs the consistency check on what is registered then: it
\* raises the mismatch error iff the check fails, whatever earlier calls did.
C9_ValidatedOnEveryCopy ==
    /\ pc = "idle" =>
          /\ \A f \in Fields : ENABLED Copyable("Person", f)
          /\ \A f \in Fields : ENABLED EntityField("Person", f)
          /\ \A impl \in Impls : ENABLED Entity("Person", impl)
          /\ Len(getCopyArgs("Person")) < MaxCopyParams =>
                \A c \in CopyDecorations("Person") :
                    ENABLED Copy("Person", c[1], c[2])
    /\ CopyReturned => (IsError(last.out) <=> ~Consistent)

\* copy() has returned, a later copy() has raised the mismatch error, and a
\* still later one has returned again, all on fully constructed instances.
C9_Witness ==
    /\ CopyReturned
    /\ FullyConstructed(last.this)
    /\ last.before = "broken"
    /\ copyHistory[Owner(last.this)] = "restored"

\* The registered positions are not 0, 1, ... without repetition.
PositionsIrregular == \E i \in 1..Len(last.args) : last.args[i].index # i - 1

\* C10: with duplicated or gapped copy-parameter positions, a copy() that
\* passes validation fails with an error at reconstruction.
C10_IrregularPositionsFail ==
    (CopyReturned /\ Consistent /\ PositionsIrregular) => IsError(last.out)

(***************************************************************************)
(* Properties of the metadata (checked under Spec)                         *)
(***************************************************************************)
\* A call of isEqual or copy is made in this step.
CallStep == pc = "idle" /\ pc' = "returned"

\* The number of entries of the CopyParam[] arr that equal e.
Count(arr, e) == Cardinality({i \in 1..Len(arr) : arr[i] = e})

\* C11: the metadata changes only by additive registration: no step clears
\* a flag or removes a copy-parameter entry, and a call of isEqual or copy
\* leaves every flag and every stored copy-parameter list, contents and
\* order, as it was.
C11_MetadataOnlyAdditive ==
    [][/\ comparable \subseteq comparable'
       /\ copyable \subseteq copyable'
       /\ entity \subseteq entity'
       /\ \A t \in Types :
             \A i \in 1..Len(getCopyArgs(t)) :
                 Count(getCopyArgs(t)', getCopyArgs(t)[i])
                     >= Count(getCopyArgs(t), getCopyArgs(t)[i])
       /\ CallStep => UNCHANGED <<comparable, copyable, entity,
                                  copyArgsRef, copyArgsArr>>]_vars

\* C11 without the order: what C11 says, but a call may leave a stored
\* copy-parameter list in another order.
C11_ContentsKept ==
    [][/\ comparable \subseteq comparable'
       /\ copyable \subseteq copyable'
       /\ entity \subseteq entity'
       /\ \A t \in Types :
             \A i \in 1..Len(getCopyArgs(t)) :
                 Count(getCopyArgs(t)', getCopyArgs(t)[i])
                     >= Count(getCopyArgs(t), getCopyArgs(t)[i])
       /\ CallStep =>
             /\ UNCHANGED <<comparable, copyable, entity, copyArgsRef>>
             /\ \A t \in Types : Len(getCopyArgs(t)') = Len(getCopyArgs(t))]_vars

(***************************************************************************)
(* Properties of copy-parameter registration (checked under SpecSub)       *)
(***************************************************************************)
\* C14: copy-parameter registration is isolated per type: a registration
\* for t leaves the list of every other type that does not extend t as it
\* was, the class t extends included.
C14_RegistrationIsolated ==
    [][\A t \in {"Person", "Student"} :
          \A c \in CopyDecorations(t) :
              Copy(t, c[1], c[2]) =>
                  \A u \in Types \ {t} :
                      t \notin ChainSet(u) => getCopyArgs(u)' = getCopyArgs(u)]_vars

====
